---- MODULE Spec2Model ----
(***************************************************************************)
(* AppBuilder (src/src/app/app_builder.rs): the builder that collects      *)
(* setup systems, staged systems, staged thread-local runnables and        *)
(* render-graph fragments, and whose build() turns them into an App.       *)
(*                                                                         *)
(* An Option<T> is a sequence of length at most one: <<>> is None and      *)
(* <<x>> is Some(x).  A Vec<T> is a sequence.  A HashMap<String, V> is a   *)
(* function whose domain is the set of its keys.  A boxed system is its    *)
(* identity: the number of the registration call that handed it over.      *)
(***************************************************************************)
EXTENDS Integers, Sequences, FiniteSets, TLC

\* ------------------------------------------------------------------ bounds
MaxUnits      == 3   \* registration calls (systems, runnables, setup systems)
NumStages     == 2   \* distinct stage names callers use
MaxGraphCalls == 2   \* setup_render_graph calls that add fragments
MaxFrames     == 1   \* iterations of the run loop
MaxFrags      == 2   \* fragments one configuration function adds

StageNames == <<"update", "first", "last", "render", "ui">>
UPDATE     == StageNames[1]
Stages     == {StageNames[i] : i \in 1..NumStages}
Worlds     == {"w1"}
FragKinds  == {"draw_target", "resource_provider"}
FragNames  == {"light"}
Routines   == {"r1", "r2"}

VARIABLES
    world,            \* Option<World>
    resources,        \* Option<Resources>
    universe,         \* Option<Universe>
    renderer,         \* Option<Box<dyn Renderer>>
    render_graph,     \* Option<RenderGraph>
    setup_systems,    \* Vec<Box<dyn Schedulable>>
    system_stages,    \* HashMap<String, Vec<Box<dyn Schedulable>>>
    runnable_stages,  \* HashMap<String, Vec<Box<dyn Runnable>>>
    stage_order,      \* Vec<String>
    app,              \* the App the last successful build() returned, if any
    last,             \* the last call made on the builder, and how it ended
    registered,       \* history: the registration calls made, in call order
    graph_calls,      \* history: the setup_render_graph calls that ran their function
    added,            \* history: the fragments the last configuration function added
    earlier_keys,     \* history: the (kind, name) of every fragment added by the calls before the last
    handed,           \* history: the builder contents the last configuration function was handed
    log,              \* history: what build() and the run loop executed, in order
    frames            \* iterations of the run loop so far

vars == <<world, resources, universe, renderer, render_graph, setup_systems,
          system_stages, runnable_stages, stage_order, app, last, registered,
          graph_calls, added, earlier_keys, handed, log, frames>>

\* ------------------------------------------------------------------ Option, Vec, HashMap
None       == <<>>
Some(x)    == <<x>>
is_some(o) == Len(o) = 1
unwrap(o)  == o[1]

\* Option::take leaves None in the slot
takeKeeps(slot) == slot
take(slot)      == None

pushFront(vec, x) == <<x>> \o vec
push(vec, x) == Append(vec, x)

EmptyMap == [k \in {} |-> <<>>]
contains_key(map, k) == k \in DOMAIN map
insert_entry(map, k, v) == [x \in DOMAIN map \cup {k} |-> IF x = k THEN v ELSE map[x]]
remove_entryKeeps(map, k) == map
remove_entry(map, k) == [x \in DOMAIN map \ {k} |-> map[x]]

\* ------------------------------------------------------------------ render graph
\* RenderGraph: named draw targets and named resource providers
DefaultRenderGraph == [draw_targets |-> EmptyMap, resource_providers |-> EmptyMap]

Fragments == [kind : FragKinds, name : FragNames, routine : Routines]

\* RenderGraphBuilder::add_draw_target / add_resource_provider: the entry of
\* that name is set to the routine
add_fragment(graph, f) ==
    IF f.kind = "draw_target"
    THEN [graph EXCEPT !.draw_targets = insert_entry(@, f.name, f.routine)]
    ELSE [graph EXCEPT !.resource_providers = insert_entry(@, f.name, f.routine)]

RECURSIVE add_fragments(_, _)
add_fragments(graph, fs) ==
    IF fs = <<>> THEN graph
    ELSE add_fragments(add_fragment(graph, Head(fs)), Tail(fs))

\* RenderGraph::build(resources): a builder holding the graph's fragments
render_graph_build(graph) == graph
\* RenderGraphBuilder::finish(): the graph of the builder's fragments
render_graph_finish(builder) == builder

\* Resources: the table of inserted resources; the one entry the builder
\* itself inserts is the render graph
DefaultResources == [render_graph |-> None]
insert_render_graphDropped(res, graph) == res
insert_render_graph(res, graph) == [res EXCEPT !.render_graph = Some(graph)]

\* ------------------------------------------------------------------ schedule
\* legion's Schedule builder: the steps added so far, in order
ScheduleBuilder == <<>>
add_system(b, unit)       == Append(b, [step |-> "system", unit |-> unit])
add_thread_local(b, unit) == Append(b, [step |-> "thread_local", unit |-> unit])
flush(b)                  == Append(b, [step |-> "flush", unit |-> 0])

RECURSIVE add_systems(_, _)
add_systems(b, units) ==
    IF units = <<>> THEN b
    ELSE add_systems(add_system(b, Head(units)), Tail(units))

RECURSIVE add_thread_locals(_, _)
add_thread_locals(b, units) ==
    IF units = <<>> THEN b
    ELSE add_thread_locals(add_thread_local(b, Head(units)), Tail(units))

\* the body of the loop with the flush after the runnables left out
StageStepsNoRunnableFlush(b, stage_name, sys, run) ==
    LET b1 == IF contains_key(sys, stage_name)
              THEN flush(add_systems(b, sys[stage_name]))
              ELSE b
    IN  IF contains_key(run, stage_name)
        THEN add_thread_locals(b1, run[stage_name])
        ELSE b1

\* the body of the loop with one flush per stage, after both lists
StageStepsOneFlush(b, stage_name, sys, run) ==
    LET b1 == IF contains_key(sys, stage_name)
              THEN add_systems(b, sys[stage_name])
              ELSE b
        b2 == IF contains_key(run, stage_name)
              THEN add_thread_locals(b1, run[stage_name])
              ELSE b1
    IN  IF contains_key(sys, stage_name) \/ contains_key(run, stage_name)
        THEN flush(b2)
        ELSE b2

\* the body of the loop with the two blocks in the other order
StageStepsRunnablesFirst(b, stage_name, sys, run) ==
    LET b1 == IF contains_key(run, stage_name)
              THEN flush(add_thread_locals(b, run[stage_name]))
              ELSE b
    IN  IF contains_key(sys, stage_name)
        THEN flush(add_systems(b1, sys[stage_name]))
        ELSE b1

\* build(), the body of the loop over stage_order: the systems of the stage
\* then a flush, the runnables of the stage then a flush
StageSteps(b, stage_name, sys, run) ==
    LET b1 == IF contains_key(sys, stage_name)
              THEN flush(add_systems(b, sys[stage_name]))
              ELSE b
    IN  IF contains_key(run, stage_name)
        THEN flush(add_thread_locals(b1, run[stage_name]))
        ELSE b1

\* build(), the loop over stage_order: each name's entries are removed from
\* both maps as they are scheduled
RECURSIVE DrainStages(_, _, _, _)
DrainStages(b, order, sys, run) ==
    IF order = <<>> THEN [schedule |-> b, sys |-> sys, run |-> run]
    ELSE DrainStages(StageSteps(b, Head(order), sys, run), Tail(order),
                     remove_entry(sys, Head(order)), remove_entry(run, Head(order)))

executeNothing(schedule, res) == <<>>

\* Schedule::execute of the setup schedule: every system of it runs once,
\* against the world and the resource table of the builder
execute(schedule, res) ==
    [i \in 1..Len(schedule) |->
        [ev |-> "setup", unit |-> schedule[i], rg |-> is_some(res.render_graph)]]

Event(name) == [ev |-> name, unit |-> 0, rg |-> FALSE]

\* App::run, one frame: the systems and runnables of the schedule, in order
RECURSIVE run_schedule(_)
run_schedule(schedule) ==
    IF schedule = <<>> THEN <<>>
    ELSE (IF Head(schedule).step = "flush" THEN <<>>
          ELSE <<[ev |-> "run", unit |-> Head(schedule).unit, rg |-> FALSE]>>)
         \o run_schedule(Tail(schedule))

\* ------------------------------------------------------------------ AppBuilder::new
Init ==
    /\ universe = Some("universe")
    /\ world = Some("w0")
    /\ resources = Some(DefaultResources)
    /\ render_graph = Some(DefaultRenderGraph)
    /\ renderer = None
    /\ setup_systems = <<>>
    /\ system_stages = EmptyMap
    /\ runnable_stages = EmptyMap
    /\ stage_order = <<>>
    /\ app = None
    /\ last = [op |-> "new", result |-> "ok"]
    /\ registered = <<>>
    /\ graph_calls = 0
    /\ added = <<>>
    /\ earlier_keys = {}
    /\ handed = None
    /\ log = <<>>
    /\ frames = 0

Ok(op)    == [op |-> op, result |-> "ok"]
Panic(op) == [op |-> op, result |-> "panic"]

Registration(kind, stage) ==
    [id |-> Len(registered) + 1, kind |-> kind, stage |-> stage, built |-> is_some(app)]

\* ------------------------------------------------------------------ registration
entry_or_insertNever(map, stage_name) == map

\* add_system_to_stage / add_runnable_to_stage: a name the map does not hold
\* gets an empty list in the map ...
entry_or_insert(map, stage_name) ==
    IF ~contains_key(map, stage_name)
    THEN insert_entry(map, stage_name, <<>>)
    ELSE map

order_afterNever(order, map, stage_name) == order

\* ... and is pushed to stage_order
order_after(order, map, stage_name) ==
    IF ~contains_key(map, stage_name)
    THEN push(order, stage_name)
    ELSE order

AddSetupSystem ==
    /\ Len(registered) < MaxUnits
    /\ setup_systems' = push(setup_systems, Len(registered) + 1)
    /\ registered' = Append(registered, Registration("setup", ""))
    /\ last' = Ok("add_setup_system")
    /\ UNCHANGED <<world, resources, universe, renderer, render_graph, system_stages,
                   runnable_stages, stage_order, app, graph_calls, added, earlier_keys, handed, log, frames>>

add_system_to_stage(op, stage_name) ==
    /\ Len(registered) < MaxUnits
    /\ LET stages == entry_or_insert(system_stages, stage_name)
       IN  IF contains_key(stages, stage_name)
           THEN /\ system_stages' =
                       [stages EXCEPT ![stage_name] = push(@, Len(registered) + 1)]
                /\ last' = Ok(op)
           ELSE /\ system_stages' = stages
                /\ last' = Panic(op)
    /\ stage_order' = order_after(stage_order, system_stages, stage_name)
    /\ registered' = Append(registered, Registration("system", stage_name))
    /\ UNCHANGED <<world, resources, universe, renderer, render_graph, setup_systems,
                   runnable_stages, app, graph_calls, added, earlier_keys, handed, log, frames>>

AddSystemToStage == \E stage_name \in Stages : add_system_to_stage("add_system_to_stage", stage_name)

AddSystem == add_system_to_stage("add_system", UPDATE)

AddRunnableToStage ==
    \E stage_name \in Stages :
        /\ Len(registered) < MaxUnits
        /\ LET stages == entry_or_insert(runnable_stages, stage_name)
           IN  IF contains_key(stages, stage_name)
               THEN /\ runnable_stages' =
                           [stages EXCEPT ![stage_name] = push(@, Len(registered) + 1)]
                    /\ last' = Ok("add_runnable_to_stage")
               ELSE /\ runnable_stages' = stages
                    /\ last' = Panic("add_runnable_to_stage")
        /\ stage_order' = order_after(stage_order, runnable_stages, stage_name)
        /\ registered' = Append(registered, Registration("runnable", stage_name))
        /\ UNCHANGED <<world, resources, universe, renderer, render_graph, setup_systems,
                       system_stages, app, graph_calls, added, earlier_keys, handed, log, frames>>

\* ------------------------------------------------------------------ configuration
WithWorld ==
    \E w \in Worlds :
        /\ world' = Some(w)
        /\ last' = Ok("with_world")
        /\ UNCHANGED <<resources, universe, renderer, render_graph, setup_systems,
                       system_stages, runnable_stages, stage_order, app, registered,
                       graph_calls, added, earlier_keys, handed, log, frames>>

\* add_wgpu_renderer, with the wgpu feature on
AddWgpuRenderer ==
    /\ renderer' = Some("wgpu")
    /\ last' = Ok("add_wgpu_renderer")
    /\ UNCHANGED <<world, resources, universe, render_graph, setup_systems,
                   system_stages, runnable_stages, stage_order, app, registered,
                   graph_calls, added, earlier_keys, handed, log, frames>>

\* ------------------------------------------------------------------ render graph setup
FragmentLists == UNION {[1..n -> Fragments] : n \in 1..MaxFrags}

FragKey(f) == <<f.kind, f.name>>

\* the configuration function: it adds its fragments to the builder it is handed
setup(render_graph_builder, fs) == add_fragments(render_graph_builder, fs)

\* setup_render_graph, its last statement: the finished graph goes back into the slot
put_backDefault(render_graph_builder) == Some(DefaultRenderGraph)
put_backTaken(render_graph_builder) == render_graph
put_back(render_graph_builder) == Some(render_graph_finish(render_graph_builder))

\* setup_render_graph with an empty slot read as the default graph
setup_render_graphOrDefault(fs) ==
    LET taken == IF is_some(render_graph) THEN unwrap(render_graph)
                 ELSE DefaultRenderGraph
        render_graph_builder == render_graph_build(taken)
    IN  /\ handed' = Some(render_graph_builder)
        /\ render_graph' = put_back(setup(render_graph_builder, fs))
        /\ graph_calls' = graph_calls + 1
        /\ added' = fs
        /\ earlier_keys' = earlier_keys \cup {FragKey(added[i]) : i \in 1..Len(added)}
        /\ last' = Ok("setup_render_graph")

\* setup_render_graph: the graph is taken out of its slot, turned into a
\* builder, handed to the configuration function, finished and put back
setup_render_graph(fs) ==
    IF ~is_some(render_graph)
    THEN /\ render_graph' = take(render_graph)
         /\ last' = Panic("setup_render_graph")
         /\ UNCHANGED <<graph_calls, added, earlier_keys, handed>>
    ELSE IF ~is_some(resources)
    THEN /\ render_graph' = take(render_graph)
         /\ last' = Panic("setup_render_graph")
         /\ UNCHANGED <<graph_calls, added, earlier_keys, handed>>
    ELSE LET render_graph_builder == render_graph_build(unwrap(render_graph))
         IN  /\ handed' = Some(render_graph_builder)
             /\ render_graph' = put_back(setup(render_graph_builder, fs))
             /\ graph_calls' = graph_calls + 1
             /\ added' = fs
             /\ earlier_keys' = earlier_keys \cup {FragKey(added[i]) : i \in 1..Len(added)}
             /\ last' = Ok("setup_render_graph")

SetupRenderGraph ==
    \E fs \in FragmentLists :
        /\ is_some(render_graph) => graph_calls < MaxGraphCalls
        /\ setup_render_graph(fs)
        /\ UNCHANGED <<world, resources, universe, renderer, setup_systems,
                       system_stages, runnable_stages, stage_order, app, registered,
                       log, frames>>

\* ------------------------------------------------------------------ build
\* build(): the setup systems are drained into the setup schedule, which is
\* executed; the stages are drained into the main schedule in stage_order;
\* the render graph is taken and inserted into the resources; universe,
\* world, resources and renderer are taken and moved into the App.  An
\* unwrap of an empty slot panics and leaves what was done before it.
Build ==
    /\ setup_systems' = <<>>
    /\ IF ~is_some(world) \/ ~is_some(resources)
       THEN /\ last' = Panic("build")
            /\ UNCHANGED <<world, resources, universe, renderer, render_graph,
                           system_stages, runnable_stages, app, log>>
       ELSE LET setup_schedule == setup_systems
                ran == execute(setup_schedule, unwrap(resources))
                drained == DrainStages(ScheduleBuilder, stage_order,
                                       system_stages, runnable_stages)
            IN  /\ system_stages' = drained.sys
                /\ runnable_stages' = drained.run
                /\ IF ~is_some(render_graph)
                   THEN /\ last' = Panic("build")
                        /\ render_graph' = take(render_graph)
                        /\ log' = log \o ran \o <<Event("drain_stages")>>
                        /\ UNCHANGED <<world, resources, universe, renderer, app>>
                   ELSE LET inserted == insert_render_graph(unwrap(resources),
                                                            unwrap(render_graph))
                        IN  /\ render_graph' = take(render_graph)
                            /\ IF ~is_some(universe)
                               THEN /\ last' = Panic("build")
                                    /\ resources' = Some(inserted)
                                    /\ universe' = take(universe)
                                    /\ log' = log \o ran
                                              \o <<Event("drain_stages"),
                                                   Event("insert_render_graph")>>
                                    /\ UNCHANGED <<world, renderer, app>>
                               ELSE /\ universe' = take(universe)
                                    /\ world' = take(world)
                                    /\ resources' = take(Some(inserted))
                                    /\ renderer' = take(renderer)
                                    /\ app' = Some([universe |-> unwrap(universe),
                                                    world |-> unwrap(world),
                                                    schedule |-> drained.schedule,
                                                    resources |-> inserted,
                                                    renderer |-> renderer])
                                    /\ log' = log \o ran
                                              \o <<Event("drain_stages"),
                                                   Event("insert_render_graph"),
                                                   Event("schedule_build"),
                                                   Event("app_new")>>
                                    /\ last' = Ok("build")
    /\ UNCHANGED <<stage_order, registered, graph_calls, added, earlier_keys, handed, frames>>

\* run(), after build(): one iteration of the App's loop executes the schedule
RunFrame ==
    /\ is_some(app)
    /\ frames < MaxFrames
    /\ frames' = frames + 1
    /\ log' = log \o run_schedule(unwrap(app).schedule)
    /\ UNCHANGED <<world, resources, universe, renderer, render_graph, setup_systems,
                   system_stages, runnable_stages, stage_order, app, last, registered,
                   graph_calls, added, earlier_keys, handed>>

\* The registration side of the builder: the callers register systems,
\* runnables and setup systems, configure world and renderer, build and run.
NextStages ==
    \/ AddSetupSystem
    \/ AddSystemToStage
    \/ AddSystem
    \/ AddRunnableToStage
    \/ WithWorld
    \/ AddWgpuRenderer
    \/ Build
    \/ RunFrame

SpecStages == Init /\ [][NextStages]_vars

\* The render-graph side of the builder: the callers set up the render
\* graph, register setup systems and build.
NextGraph ==
    \/ SetupRenderGraph
    \/ AddSetupSystem
    \/ Build

SpecGraph == Init /\ [][NextGraph]_vars

\* ------------------------------------------------------------------ what the histories say
Range(seq) == {seq[i] : i \in 1..Len(seq)}
Indices(seq, Test(_)) == {i \in 1..Len(seq) : Test(seq[i])}

IsStaged(r) == r.kind \in {"system", "runnable"}
\* the registration calls made before the build that produced the App
PreBuild == {i \in 1..Len(registered) : ~registered[i].built}
PreBuildStaged == {i \in PreBuild : IsStaged(registered[i])}
PreBuildSetup == {i \in PreBuild : registered[i].kind = "setup"}
StageOf(unit) == registered[unit].stage
KindOf(unit) == registered[unit].kind
\* the call that first named the stage, whichever kind it registered
FirstSeen(stage) ==
    CHOOSE i \in 1..Len(registered) :
        /\ IsStaged(registered[i]) /\ registered[i].stage = stage
        /\ \A j \in 1..(i - 1) : ~(IsStaged(registered[j]) /\ registered[j].stage = stage)

\* the elements of a sequence in order of first occurrence
RECURSIVE FirstOccurrences(_)
FirstOccurrences(seq) ==
    IF seq = <<>> THEN <<>>
    ELSE LET front == FirstOccurrences(SubSeq(seq, 1, Len(seq) - 1))
             x == seq[Len(seq)]
         IN  IF x \in Range(front) THEN front ELSE Append(front, x)

StagedCalls == SelectSeq(registered, IsStaged)
StagedNames == [i \in 1..Len(StagedCalls) |-> StagedCalls[i].stage]
StagedNameKinds == [i \in 1..Len(StagedCalls) |-> <<StagedCalls[i].stage, StagedCalls[i].kind>>]

Schedule == unwrap(app).schedule
IsUnitStep(st) == st.step # "flush"
IsFlushStep(st) == st.step = "flush"
UnitSteps == Indices(Schedule, IsUnitStep)
Flushes == Indices(Schedule, IsFlushStep)
FlushBetween(i, j) == \E k \in Flushes : i < k /\ k < j

\* ------------------------------------------------------------------ C1
\* C1: while the builder is being configured, stage_order is the sequence of
\* first-seen distinct stage names of the add_system_to_stage and
\* add_runnable_to_stage calls made, so it holds no name twice.
C1_StageOrderIsFirstSeenDistinct ==
    ~is_some(app) =>
        /\ stage_order = FirstOccurrences(StagedNames)
        /\ \A i, j \in 1..Len(stage_order) : stage_order[i] = stage_order[j] => i = j

\* ------------------------------------------------------------------ C2
\* C2: in the main schedule a successful build() made, of two units registered under
\* different stage names the one whose stage was first seen earlier comes
\* first, and a flush lies between them.
C2_EarlierStageFirstBehindBarrier ==
    last = Ok("build") =>
        \A i, j \in UnitSteps :
            LET si == StageOf(Schedule[i].unit)
                sj == StageOf(Schedule[j].unit)
            IN  (si # sj /\ FirstSeen(si) < FirstSeen(sj)) =>
                    (i < j /\ FlushBetween(i, j))

\* a stage holding runnables only is followed in the schedule by a unit of a later stage
C2_Witness ==
    /\ last = Ok("build")
    /\ \E i, j \in UnitSteps :
          /\ i < j
          /\ StageOf(Schedule[i].unit) # StageOf(Schedule[j].unit)
          /\ \A k \in UnitSteps :
                StageOf(Schedule[k].unit) = StageOf(Schedule[i].unit)
                    => Schedule[k].step = "thread_local"

\* ------------------------------------------------------------------ C3
\* C3 as stated: the main schedule holds one flush per distinct registered
\* stage name, and no flush lies between two units of the same stage.
C3_OneBarrierPerStage ==
    last = Ok("build") =>
        /\ Cardinality(Flushes) = Cardinality(Range(StagedNames))
        /\ \A i, j \in UnitSteps :
              StageOf(Schedule[i].unit) = StageOf(Schedule[j].unit)
                  => ~FlushBetween(i, j)

\* C3 as amended: the main schedule holds one flush per registered (stage
\* name, kind) pair, right after the last unit of that stage and kind, and no
\* flush lies between two units of the same stage and the same kind.
C3_OneBarrierPerStageAndKind ==
    last = Ok("build") =>
        /\ Cardinality(Flushes) = Cardinality(Range(StagedNameKinds))
        /\ \A i, j \in UnitSteps :
              (/\ StageOf(Schedule[i].unit) = StageOf(Schedule[j].unit)
               /\ Schedule[i].step = Schedule[j].step)
                  => ~FlushBetween(i, j)
        /\ \A i \in UnitSteps :
              \/ /\ i + 1 \in Flushes
                 /\ \A j \in UnitSteps :
                       (/\ StageOf(Schedule[j].unit) = StageOf(Schedule[i].unit)
                        /\ Schedule[j].step = Schedule[i].step) => j <= i
              \/ /\ i + 1 \in UnitSteps
                 /\ StageOf(Schedule[i + 1].unit) = StageOf(Schedule[i].unit)
                 /\ Schedule[i + 1].step = Schedule[i].step

\* a stage was built that holds a system and a runnable
C3_Witness ==
    /\ last = Ok("build")
    /\ \E i, j \in UnitSteps :
          /\ StageOf(Schedule[i].unit) = StageOf(Schedule[j].unit)
          /\ Schedule[i].step = "system"
          /\ Schedule[j].step = "thread_local"

\* ------------------------------------------------------------------ C4
AppsReturned == {i \in 1..Len(log) : log[i].ev = "app_new"}

\* C4: a build() fails only on a builder that has already produced an App
\* (so the first build() succeeds), and no builder produces a second App,
\* whatever is registered or configured after the first.
C4_FirstBuildSucceedsLaterBuildsFail ==
    /\ last = Panic("build") => is_some(app)
    /\ last = Ok("build") => is_some(app)
    /\ Cardinality(AppsReturned) <= 1
    /\ is_some(app) <=> Cardinality(AppsReturned) = 1

\* a build() has failed on a built builder that was given a world and a
\* system again
C4_Witness ==
    /\ last = Panic("build")
    /\ is_some(world)
    /\ \E i \in 1..Len(registered) : registered[i].built

\* ------------------------------------------------------------------ C5
SetupRuns(unit) == {i \in 1..Len(log) : log[i].ev = "setup" /\ log[i].unit = unit}
IsSetupEvent(e) == e.ev = "setup"
IsRunEvent(e) == e.ev = "run"
IsScheduleBuild(e) == e.ev = "schedule_build"

\* C5: after a successful build(), every setup system registered before build()
\* has run exactly once, before the main schedule was built and before any
\* unit of the main schedule ran, and no setup system is a step of the main
\* schedule.
C5_SetupRunsOnceBeforeSchedule ==
    last = Ok("build") =>
        /\ \A u \in PreBuildSetup : Cardinality(SetupRuns(u)) = 1
        /\ \A i \in Indices(log, IsSetupEvent) :
              /\ log[i].unit \in PreBuildSetup
              /\ \A j \in Indices(log, IsScheduleBuild) : i < j
              /\ \A j \in Indices(log, IsRunEvent) : i < j
        /\ \A i \in UnitSteps : Schedule[i].unit \notin PreBuildSetup

\* a setup system and a staged unit were registered, built and run for a frame
C5_Witness ==
    /\ last = Ok("build")
    /\ PreBuildSetup # {}
    /\ Indices(log, IsRunEvent) # {}

\* ------------------------------------------------------------------ C6
StepsOf(unit) == {i \in UnitSteps : Schedule[i].unit = unit}
StepKind(kind) == IF kind = "system" THEN "system" ELSE "thread_local"

\* C6: the main schedule a successful build() made holds every unit staged before build() exactly once,
\* as a step of its kind, and nothing else; two units of the same stage and
\* kind are in it in registration order.
C6_StagedUnitsConserved ==
    last = Ok("build") =>
        /\ \A u \in PreBuildStaged :
              /\ Cardinality(StepsOf(u)) = 1
              /\ \A i \in StepsOf(u) : Schedule[i].step = StepKind(KindOf(u))
        /\ \A i \in UnitSteps : Schedule[i].unit \in PreBuildStaged
        /\ \A u, v \in PreBuildStaged :
              (u < v /\ StageOf(u) = StageOf(v) /\ KindOf(u) = KindOf(v)) =>
                  \A i \in StepsOf(u), j \in StepsOf(v) : i < j

\* two units of one stage and kind were built into a schedule
C6_Witness ==
    /\ last = Ok("build")
    /\ \E u, v \in PreBuildStaged :
          u < v /\ StageOf(u) = StageOf(v) /\ KindOf(u) = KindOf(v)

\* ------------------------------------------------------------------ C7
\* C7 as stated: right after a successful build() every slot is absent, the
\* setup systems and both stage maps are empty, and stage_order is empty.
C7_EverySlotTaken ==
    last = Ok("build") =>
        /\ world = None /\ resources = None /\ universe = None
        /\ render_graph = None /\ renderer = None
        /\ setup_systems = <<>>
        /\ DOMAIN system_stages = {} /\ DOMAIN runnable_stages = {}
        /\ stage_order = <<>>

\* C7 as amended: right after a successful build() every slot is absent and
\* the setup systems and both stage maps are empty; stage_order is not
\* emptied: it holds the names the registrations pushed, one per stage name
\* and kind, in call order.
C7_SlotsTakenStageOrderKept ==
    last = Ok("build") =>
        /\ world = None /\ resources = None /\ universe = None
        /\ render_graph = None /\ renderer = None
        /\ setup_systems = <<>>
        /\ DOMAIN system_stages = {} /\ DOMAIN runnable_stages = {}
        /\ stage_order = [i \in 1..Len(FirstOccurrences(StagedNameKinds)) |->
                             FirstOccurrences(StagedNameKinds)[i][1]]

\* a builder with a renderer, a setup system and a staged unit was built
C7_Witness ==
    /\ last = Ok("build")
    /\ is_some(unwrap(app).renderer)
    /\ PreBuildSetup # {}
    /\ stage_order # <<>>

\* ------------------------------------------------------------------ C10
RegistrationOps ==
    {"add_system", "add_setup_system", "add_system_to_stage", "add_runnable_to_stage"}

\* C10: a registration call never fails, before or after build().
C10_RegistrationNeverFails ==
    last.op \in RegistrationOps => last.result = "ok"

\* a runnable was registered under a new stage name on a built builder
C10_Witness ==
    /\ last = Ok("add_runnable_to_stage")
    /\ is_some(app)
    /\ resources = None
    /\ registered[Len(registered)].stage \notin
           {registered[i].stage : i \in 1..(Len(registered) - 1)}

\* ------------------------------------------------------------------ C8
GraphKeys(graph) ==
    {<<"draw_target", n>> : n \in DOMAIN graph.draw_targets}
        \cup {<<"resource_provider", n>> : n \in DOMAIN graph.resource_providers}
RoutineOf(graph, key) ==
    IF key[1] = "draw_target" THEN graph.draw_targets[key[2]]
    ELSE graph.resource_providers[key[2]]
AddedKeys == {FragKey(added[i]) : i \in 1..Len(added)}
IsDrain(e) == e.ev = "drain_stages"
IsInsert(e) == e.ev = "insert_render_graph"
IsAppNew(e) == e.ev = "app_new"

\* C8: in a successful build() the render graph is inserted into the
\* resources once, after the setup systems have run (they see resources
\* without a render graph) and after the stages have been drained, and
\* before the App is made; the resources of the App hold the render graph
\* with the fragments the builder was given.
C8_RenderGraphInsertedAfterSetupAndDrain ==
    last = Ok("build") =>
        /\ Cardinality(Indices(log, IsInsert)) = 1
        /\ \A k \in Indices(log, IsInsert) :
              /\ \A i \in Indices(log, IsSetupEvent) : i < k /\ ~log[i].rg
              /\ \E i \in Indices(log, IsDrain) : i < k
              /\ \A i \in Indices(log, IsAppNew) : k < i
        /\ is_some(unwrap(app).resources.render_graph)
        /\ GraphKeys(unwrap(unwrap(app).resources.render_graph))
               = earlier_keys \cup AddedKeys

\* a builder with a setup system and a staged unit was built
C8_Witness ==
    /\ last = Ok("build")
    /\ Indices(log, IsSetupEvent) # {}
    /\ UnitSteps # {}

\* ------------------------------------------------------------------ C9
\* C9: the builder handed to a configuration function holds every fragment
\* the earlier calls added; after the call the render graph holds those and
\* the ones just added, an earlier entry keeping its routine unless the call
\* registered that kind and name again; the graph build() inserts into the
\* resources holds the fragments of every call.
C9_FragmentsAccumulate ==
    /\ is_some(handed) => GraphKeys(unwrap(handed)) = earlier_keys
    /\ is_some(render_graph) =>
          /\ GraphKeys(unwrap(render_graph)) = earlier_keys \cup AddedKeys
          /\ is_some(handed) =>
                \A key \in earlier_keys \ AddedKeys :
                    RoutineOf(unwrap(render_graph), key) = RoutineOf(unwrap(handed), key)
    /\ last = Ok("setup_render_graph") => is_some(render_graph) /\ is_some(handed)
    /\ is_some(app) =>
          GraphKeys(unwrap(unwrap(app).resources.render_graph))
              = earlier_keys \cup AddedKeys

\* two calls added fragments of different kinds, and the builder was built
C9_Witness ==
    /\ is_some(app)
    /\ graph_calls = 2
    /\ earlier_keys # {}
    /\ AddedKeys \ earlier_keys # {}

\* ------------------------------------------------------------------ C11
\* the fragments of the last call that registered this kind and name
AddedAt(key) == {i \in 1..Len(added) : FragKey(added[i]) = key}
LastAddedAt(key) == CHOOSE i \in AddedAt(key) : \A j \in AddedAt(key) : j <= i

C12_SystemsBeforeRunnablesInStage ==
    last = Ok("build") =>
        \A i, j \in UnitSteps :
            (/\ StageOf(Schedule[i].unit) = StageOf(Schedule[j].unit)
             /\ Schedule[i].step = "system"
             /\ Schedule[j].step = "thread_local") => i < j

\* a runnable was registered under a name before a system was
C12_Witness ==
    /\ last = Ok("build")
    /\ \E u, v \in PreBuildStaged :
          /\ u < v
          /\ StageOf(u) = StageOf(v)
          /\ KindOf(u) = "runnable"
          /\ KindOf(v) = "system"

\* ------------------------------------------------------------------ C13
\* C13: until build() has taken it, the render graph is in its slot after
\* every call; a setup_render_graph call on a built builder panics, and
\* neither runs the configuration function nor adds a fragment.
C13_RenderGraphSlotTakeAndReplace ==
    /\ [](~is_some(app) => is_some(render_graph))
    /\ [][(is_some(app) /\ last'.op = "setup_render_graph") =>
              /\ last'.result = "panic"
              /\ UNCHANGED <<render_graph, resources, app, graph_calls, added,
                             earlier_keys, handed>>]_vars

\* a builder that had fragments set up was built, and set up again
C13_Witness ==
    /\ last = Panic("setup_render_graph")
    /\ is_some(app)
    /\ graph_calls > 0

\* ------------------------------------------------------------------ C14
\* C14: a build() that panics leaves setup_systems, both stage maps and
\* stage_order as they were, and returns no App.
C14_FailedBuildChangesNothing ==
    [][(last'.op = "build" /\ last'.result = "panic") =>
          UNCHANGED <<setup_systems, system_stages, runnable_stages, stage_order, app>>]_vars

\* ------------------------------------------------------------------ C15
\* the schedule the registration calls alone determine: the stage names in
\* first-seen order, each with its systems and a flush, then its runnables
\* and a flush
CallsOf(name, kind) ==
    SelectSeq(registered, LAMBDA r : r.stage = name /\ r.kind = kind)
StepsFor(name, kind) ==
    LET calls == CallsOf(name, kind)
    IN  IF calls = <<>> THEN <<>>
        ELSE [i \in 1..Len(calls) |-> [step |-> StepKind(kind), unit |-> calls[i].id]]
                 \o <<[step |-> "flush", unit |-> 0]>>
RECURSIVE StepsForStages(_)
StepsForStages(names) ==
    IF names = <<>> THEN <<>>
    ELSE StepsFor(Head(names), "system") \o StepsFor(Head(names), "runnable")
             \o StepsForStages(Tail(names))
ExpectedSchedule == StepsForStages(FirstOccurrences(StagedNames))

\* C15: the main schedule a successful build() made is a function of the
\* sequence of registration calls: the stages in first-seen order of their
\* names, each name emitted once, with both its lists, where it first
\* occurs in stage_order; a later occurrence of the name adds no unit and
\* no flush.
C15_ScheduleDeterminedByRegistrations ==
    last = Ok("build") => Schedule = ExpectedSchedule

\* stage_order held a name twice, with another name in between, when built
C15_Witness ==
    /\ last = Ok("build")
    /\ \E i, j, k \in 1..Len(stage_order) :
          /\ i < j /\ j < k
          /\ stage_order[i] = stage_order[k]
          /\ stage_order[i] # stage_order[j]

\* ------------------------------------------------------------------ C16
\* C16: while the builder is being configured, every key of system_stages
\* and of runnable_stages is in stage_order and maps to a non-empty list;
\* and in the main schedule a successful build() made every flush comes
\* right after a unit, so no flush is first and no two are adjacent.
C16_KeysOrderedAndNonEmpty ==
    /\ ~is_some(app) =>
          /\ \A k \in DOMAIN system_stages :
                k \in Range(stage_order) /\ system_stages[k] # <<>>
          /\ \A k \in DOMAIN runnable_stages :
                k \in Range(stage_order) /\ runnable_stages[k] # <<>>
    /\ last = Ok("build") =>
          \A i \in Flushes : i > 1 /\ (i - 1) \in UnitSteps

\* a schedule with three flushes was built
C16_Witness ==
    /\ last = Ok("build")
    /\ Cardinality(Flushes) >= 3

====
